---- MODULE Spec2Model ----
(***************************************************************************)
(* Model of Virtual_Try_On_Blush/udp_webcam_server.py: class               *)
(* UDPWebcamServer.  Three threads share the object: the main thread       *)
(* (start_server, send_frames, stop_server), the registration listener     *)
(* (listen_for_clients) and the control listener (listen_for_controls).    *)
(*                                                                         *)
(* A datagram is a sequence of bytes; a byte is written as the one-letter  *)
(* string of its ASCII character, and BadByte stands for a byte (0xFF)     *)
(* that is not valid UTF-8.  A float (the blush intensity) is a record:    *)
(* its value in hundredths, or NaN.                                        *)
(***************************************************************************)
EXTENDS Integers, Sequences, FiniteSets, TLC

(***************************************************************************)
(* Bounds of the model.                                                    *)
(***************************************************************************)
\* frames encoded in one run (caps sequence_number)
MaxFrames == 2
\* longest encoded frame, in bytes
MaxFrameLen == 3
\* largest payload_size = max_packet_size - header_size that Init draws
MaxChunk == 2
\* width of a header field in bits.  The fields of struct.pack("!III") have
\* 32 bits; TLC's integers end at 2^31 - 1, so the field is scaled down, and
\* every comparison with its largest value is kept
HeaderBits == 8

\* client endpoints (host, port)
Addrs == {"a1", "a2"}

(***************************************************************************)
(* Program constants.                                                      *)
(***************************************************************************)
header_size == 12
\* the largest value an unsigned header field holds
HeaderFieldMax == 2^HeaderBits - 1

VARIABLES
    \* UDPWebcamServer attributes
    running, sequence_number, clients, server_socket, control_socket, camera,
    blush_color_rgb, blush_intensity, blush_blur, max_packet_size, lock,
    \* main thread: position and the locals of send_frames
    pc, params, frame_data, total_packets, current_clients, pending,
    client_addr, packet_index,
    \* registration listener thread: position and locals
    regPc, regData, regAddr, regReply,
    \* control listener thread: position and locals
    ctlPc, ctlData, ctlAddr, ctlReplies,
    \* observation of the wire and of the run (history)
    sent, failed, encoded, acked

objVars == <<running, sequence_number, clients, server_socket, control_socket,
             camera, max_packet_size, lock>>
paramVars == <<blush_color_rgb, blush_intensity, blush_blur>>
mainVars == <<pc, params, frame_data, total_packets, current_clients, pending,
              client_addr, packet_index>>
regVars == <<regPc, regData, regAddr, regReply>>
ctlVars == <<ctlPc, ctlData, ctlAddr, ctlReplies>>
histVars == <<sent, failed, encoded, acked>>
vars == <<objVars, paramVars, mainVars, regVars, ctlVars, histVars>>

(***************************************************************************)
(* Python text primitives, computed as the interpreter computes them.      *)
(***************************************************************************)
BadByte == "<FF>"
None == "None"
\* the value of a datagram local while no datagram is held
NoData == <<None>>
Failure == [ok |-> FALSE]
Digits == <<"0", "1", "2", "3", "4", "5", "6", "7", "8", "9">>

\* bytes.decode('utf-8'): raises UnicodeDecodeError on an invalid byte
Decode(data) ==
    IF \E i \in 1..Len(data) : data[i] = BadByte
      THEN Failure
      ELSE [ok |-> TRUE, text |-> data]

\* str.strip(): drops leading and trailing whitespace
RECURSIVE LStrip(_)
LStrip(s) == IF s # <<>> /\ Head(s) = " " THEN LStrip(Tail(s)) ELSE s
RECURSIVE RStrip(_)
RStrip(s) ==
    IF s # <<>> /\ s[Len(s)] = " " THEN RStrip(SubSeq(s, 1, Len(s) - 1)) ELSE s
Strip(s) == RStrip(LStrip(s))

\* str.startswith(prefix)
StartsWith(s, p) == Len(s) >= Len(p) /\ SubSeq(s, 1, Len(p)) = p

\* str.split(sep) for a one-character separator: always at least one field
RECURSIVE SplitFrom(_, _, _)
SplitFrom(s, sep, cur) ==
    IF s = <<>> THEN <<cur>>
    ELSE IF Head(s) = sep THEN <<cur>> \o SplitFrom(Tail(s), sep, <<>>)
    ELSE SplitFrom(Tail(s), sep, Append(cur, Head(s)))
Split(s, sep) == SplitFrom(s, sep, <<>>)

DigitValue(c) == CHOOSE d \in 0..9 : Digits[d + 1] = c
IsDigit(c) == \E d \in 1..10 : Digits[d] = c
AllDigits(s) == s # <<>> /\ \A i \in 1..Len(s) : IsDigit(s[i])
RECURSIVE DigitsValue(_)
DigitsValue(s) ==
    IF s = <<>> THEN 0
    ELSE 10 * DigitsValue(SubSeq(s, 1, Len(s) - 1)) + DigitValue(s[Len(s)])

\* int(text): surrounding whitespace and one sign are accepted, then digits only
ParseInt(text) ==
    LET t == Strip(text)
        neg == t # <<>> /\ Head(t) = "-"
        body == IF t # <<>> /\ Head(t) \in {"-", "+"} THEN Tail(t) ELSE t
    IN  IF AllDigits(body)
          THEN [ok |-> TRUE, val |-> IF neg THEN 0 - DigitsValue(body)
                                            ELSE DigitsValue(body)]
          ELSE Failure

\* a float: v is its value in hundredths, nan says it is NaN
Float(hundredths) == [nan |-> FALSE, v |-> hundredths]
NaN == [nan |-> TRUE, v |-> 0]

\* float(text): digits with an optional fraction (its first two digits are
\* kept), or nan; anything else raises ValueError
ParseFloat(text) ==
    LET t == Strip(text)
        neg == t # <<>> /\ Head(t) = "-"
        body == IF t # <<>> /\ Head(t) \in {"-", "+"} THEN Tail(t) ELSE t
        parts == Split(body, ".")
        whole == parts[1]
        frac == IF Len(parts) = 2 THEN parts[2] ELSE <<>>
        frac2 == SubSeq(frac \o <<"0", "0">>, 1, 2)
        wellFormed == /\ Len(parts) <= 2
                      /\ whole # <<>> \/ frac # <<>>
                      /\ whole = <<>> \/ AllDigits(whole)
                      /\ frac = <<>> \/ AllDigits(frac)
        mag == 100 * DigitsValue(whole) + DigitsValue(frac2)
    IN  IF body = <<"n", "a", "n">> THEN [ok |-> TRUE, val |-> NaN]
        ELSE IF wellFormed
          THEN [ok |-> TRUE, val |-> Float(IF neg THEN 0 - mag ELSE mag)]
          ELSE Failure

\* the builtins min(a, b) and max(a, b): the first argument is kept unless the
\* second compares strictly smaller (larger)
PyMin(a, b) == IF b < a THEN b ELSE a
PyMax(a, b) == IF a < b THEN b ELSE a

\* the same builtins on floats: every comparison with NaN is false
FloatLess(x, y) == ~x.nan /\ ~y.nan /\ x.v < y.v
FloatMin(a, b) == IF FloatLess(b, a) THEN b ELSE a
FloatMax(a, b) == IF FloatLess(a, b) THEN b ELSE a

(***************************************************************************)
(* Datagrams the environment sends.                                        *)
(***************************************************************************)
REGISTER == <<"R", "E", "G", "I", "S", "T", "E", "R">>
UNREGISTER == <<"U", "N">> \o REGISTER
\* datagrams arriving on the registration port: the two commands, a command
\* with trailing whitespace, other text, and bytes that are not UTF-8
RegDatagrams ==
    { REGISTER, UNREGISTER, REGISTER \o <<" ">>, <<"H", "I">>, <<BadByte>> }

ColorPrefix == <<"C", "O", "L", "O", "R", ":">>
IntensityPrefix == <<"I", "N", "T", "E", "N", "S", "I", "T", "Y", ":">>
BlurPrefix == <<"B", "L", "U", "R", ":">>

ColorArgs ==
    { <<"3", "0", "0", ",", "1", "0", ",", "1", "0">>,       \* 300,10,10
      <<"1", "0", ",", "2", "0", ",", "3", "0">>,            \* 10,20,30
      <<"-", "1", ",", "0", ",", "2", "5", "5">>,            \* -1,0,255
      <<"1", "0", ",", " ", "2", "0", ",", "3", "0">>,       \* 10, 20,30
      <<"1", "0", ",", "2", "0">>,                           \* 10,20
      <<"1", ",", "2", ",", "3", ",", "4">>,                 \* 1,2,3,4
      <<"1", "0", ",", "x", ",", "3", "0">>,                 \* 10,x,30
      <<"1", ".", "5", ",", "2", ",", "3">>,                 \* 1.5,2,3
      <<>> }
IntensityArgs ==
    { <<"1", ".", "5">>, <<"0", ".", "5">>, <<"-", "0", ".", "5">>, <<"2">>,
      <<"n", "a", "n">>, <<"x">>, <<"1", ".", "5", ".", "2">>, <<>> }
BlurArgs ==
    { <<"3">>, <<"2", "0">>, <<"6", "0">>, <<"-", "7">>, <<"7", ".", "5">>,
      <<"x">>, <<>> }

\* datagrams arriving on the control port
CtlDatagrams ==
    { ColorPrefix \o a : a \in ColorArgs }
    \cup { IntensityPrefix \o a : a \in IntensityArgs }
    \cup { BlurPrefix \o a : a \in BlurArgs }
    \cup { <<" ">> \o BlurPrefix \o <<"2", "0", " ">>,       \* padded command
           BlurPrefix \o <<"2", "0", ":", "x">>,             \* BLUR:20:x
           <<"H", "I">>,                                     \* unknown command
           <<"c", "o", "l", "o", "r", ":", "1", ",", "2", ",", "3">>,
           ColorPrefix \o <<BadByte>> }                      \* not UTF-8

(***************************************************************************)
(* __init__                                                                *)
(***************************************************************************)
Init ==
    /\ running = FALSE
    /\ sequence_number = 0
    /\ clients = {}
    /\ server_socket = None
    /\ control_socket = None
    /\ camera = None
    /\ blush_color_rgb = <<235, 148, 146>>
    /\ blush_intensity = Float(25)
    /\ blush_blur = 15
    /\ max_packet_size \in (header_size + 1)..(header_size + MaxChunk)
    /\ lock = None
    /\ pc = "start"
    /\ params = <<>>
    /\ frame_data = <<>>
    /\ total_packets = 0
    /\ current_clients = {}
    /\ pending = {}
    /\ client_addr = None
    /\ packet_index = 0
    /\ regPc = "idle"
    /\ regData = NoData
    /\ regAddr = None
    /\ regReply = None
    /\ ctlPc = "idle"
    /\ ctlData = NoData
    /\ ctlAddr = None
    /\ ctlReplies = <<>>
    /\ sent = [a \in Addrs |-> <<>>]
    /\ failed = {}
    /\ encoded = 0
    /\ acked = {}

(***************************************************************************)
(* start_server and stop_server (main thread)                              *)
(***************************************************************************)
\* lines 326-328: create and bind the frame socket; bind may raise OSError,
\* which reaches the handler of __main__ (lines 382-384) and so stop_server
BindServer(ok) ==
    /\ pc = "start"
    /\ ~running
    /\ server_socket' = "open"
    /\ pc' = IF ok THEN "bind_control" ELSE "stop"
    /\ UNCHANGED <<running, sequence_number, clients, control_socket, camera,
                   max_packet_size, lock, paramVars, params, frame_data,
                   total_packets, current_clients, pending, client_addr,
                   packet_index, regVars, ctlVars, histVars>>

\* lines 332-334
BindControl(ok) ==
    /\ pc = "bind_control"
    /\ control_socket' = "open"
    /\ pc' = IF ok THEN "init_camera" ELSE "stop"
    /\ UNCHANGED <<running, sequence_number, clients, server_socket, camera,
                   max_packet_size, lock, paramVars, params, frame_data,
                   total_packets, current_clients, pending, client_addr,
                   packet_index, regVars, ctlVars, histVars>>

\* InitCamera without the two close calls of lines 337-338
InitCameraLeak(ok) ==
    /\ pc = "init_camera"
    /\ IF ok
         THEN /\ camera' = "opened"
              /\ running' = TRUE
              /\ sequence_number' = 0
              /\ regPc' = "top"
              /\ ctlPc' = "top"
              /\ pc' = "loop"
         ELSE /\ camera' = "unopened"
              /\ pc' = "returned"
              /\ UNCHANGED <<running, sequence_number, regPc, ctlPc>>
    /\ UNCHANGED <<clients, server_socket, control_socket, max_packet_size,
                   lock, paramVars, params, frame_data, total_packets,
                   current_clients, pending, client_addr, packet_index,
                   regData, regAddr, regReply, ctlData, ctlAddr, ctlReplies,
                   histVars>>

\* lines 336-349: initialize_camera; on failure both sockets are closed and
\* start_server returns; on success the flag is set, the sequence number is
\* reset and the two listener threads are started
InitCamera(ok) ==
    /\ pc = "init_camera"
    /\ IF ok
         THEN /\ camera' = "opened"
              /\ running' = TRUE
              /\ sequence_number' = 0
              /\ regPc' = "top"
              /\ ctlPc' = "top"
              /\ pc' = "loop"
              /\ UNCHANGED <<server_socket, control_socket>>
         ELSE /\ camera' = "unopened"
              /\ server_socket' = "closed"
              /\ control_socket' = "closed"
              /\ pc' = "returned"
              /\ UNCHANGED <<running, sequence_number, regPc, ctlPc>>
    /\ UNCHANGED <<clients, max_packet_size, lock, paramVars, params,
                   frame_data, total_packets, current_clients, pending, client_addr,
                   packet_index, regData, regAddr, regReply, ctlData, ctlAddr,
                   ctlReplies, histVars>>

LoopPcs ==
    {"loop", "process", "acquire", "read_color", "read_intensity",
     "read_blur", "encode", "fanout", "pace"}

\* the positions of lines 265-280: camera.read, apply_blush and cv2.imencode
FramePcs == {"loop", "process", "encode"}

\* lines 352-357: KeyboardInterrupt anywhere in send_frames; the with
\* statement of line 219 releases the lock on the way out, and the finally
\* clause calls stop_server
Interrupt ==
    /\ pc \in LoopPcs
    /\ pc' = "stop"
    /\ lock' = None
    /\ params' = <<>>
    /\ frame_data' = <<>>
    /\ total_packets' = 0
    /\ current_clients' = {}
    /\ pending' = {}
    /\ client_addr' = None
    /\ packet_index' = 0
    /\ sent' = [a \in Addrs |-> <<>>]
    /\ failed' = {}
    /\ UNCHANGED <<running, sequence_number, clients, server_socket,
                   control_socket, camera, max_packet_size, paramVars,
                   regVars, ctlVars, encoded, acked>>

\* lines 265-280 and 352-357: camera.read, apply_blush or cv2.imencode raises.
\* send_frames has no handler around them and start_server catches only
\* KeyboardInterrupt, so the exception leaves the loop through the finally
\* clause, which calls stop_server, and goes on to __main__ (lines 382-384)
FrameError ==
    /\ pc \in FramePcs
    /\ running
    /\ pc' = "raised"
    /\ params' = <<>>
    /\ UNCHANGED <<objVars, paramVars, frame_data, total_packets,
                   current_clients, pending, client_addr, packet_index,
                   regVars, ctlVars, histVars>>

\* lines 360-362: the flag is cleared, then a 0.1 s sleep
StopFlag ==
    /\ pc \in {"stop", "raised"}
    /\ running' = FALSE
    /\ pc' = "stop_close"
    /\ UNCHANGED <<sequence_number, clients, server_socket, control_socket,
                   camera, max_packet_size, lock, paramVars, params, frame_data,
                   total_packets, current_clients, pending, client_addr,
                   packet_index, regVars, ctlVars, histVars>>

\* lines 364-372: close and forget whatever is set
StopClose ==
    /\ pc = "stop_close"
    /\ server_socket' = None
    /\ control_socket' = None
    /\ camera' = None
    /\ pc' = "returned"
    /\ UNCHANGED <<running, sequence_number, clients, max_packet_size, lock,
                   paramVars, params, frame_data, total_packets,
                   current_clients, pending, client_addr, packet_index,
                   regVars, ctlVars, histVars>>

(***************************************************************************)
(* listen_for_clients (registration listener thread)                       *)
(***************************************************************************)
\* line 76: the loop test; the locals of the previous iteration are dead
RegTop ==
    /\ regPc = "top"
    /\ regPc' = IF running THEN "recv" ELSE "exited"
    /\ regData' = NoData
    /\ regAddr' = None
    /\ regReply' = None
    /\ UNCHANGED <<objVars, paramVars, mainVars, ctlVars, histVars>>

\* RegBranch as it would be with set.remove in place of the guarded discard:
\* an UNREGISTER from a non-member raises KeyError and leaves the loop
RegBranchRemove(message, addr, registry) ==
    IF addr \notin registry /\ message = REGISTER THEN "add"
    ELSE IF message = UNREGISTER
      THEN IF addr \in registry THEN "discard" ELSE "exited"
    ELSE "top"

\* the branch lines 81-88 take for a decoded message from addr, given the
\* registry as the membership test reads it
RegBranch(message, addr, registry) ==
    IF addr \notin registry /\ message = REGISTER THEN "add"
    ELSE IF message = UNREGISTER /\ addr \in registry THEN "discard"
    ELSE "top"

\* lines 78-81, 86: a datagram arrives, is decoded and the membership test is
\* made; a decoding error is caught at line 92 and leaves the loop (line 95)
RegRecv(data, addr) ==
    /\ regPc = "recv"
    /\ server_socket = "open"
    /\ regData' = data
    /\ regAddr' = addr
    /\ regReply' = None
    /\ regPc' = IF Decode(data).ok
                  THEN RegBranch(Decode(data).text, addr, clients)
                  ELSE "exited"
    /\ UNCHANGED <<objVars, paramVars, mainVars, ctlVars, histVars>>

\* lines 90-91: socket.timeout, continue
RegTimeout ==
    /\ regPc = "recv"
    /\ regPc' = "top"
    /\ UNCHANGED <<objVars, paramVars, mainVars, regData, regAddr, regReply,
                   ctlVars, histVars>>

\* lines 92-95: recvfrom on a closed or forgotten socket raises, break
RegSocketError ==
    /\ regPc = "recv"
    /\ server_socket # "open"
    /\ regPc' = "exited"
    /\ UNCHANGED <<objVars, paramVars, mainVars, regData, regAddr, regReply,
                   ctlVars, histVars>>

\* line 83
RegAdd ==
    /\ regPc = "add"
    /\ clients' = clients \cup {regAddr}
    /\ regPc' = "reply"
    /\ UNCHANGED <<running, sequence_number, server_socket, control_socket,
                   camera, max_packet_size, lock, paramVars, mainVars, regData,
                   regAddr, regReply, ctlVars, histVars>>

\* line 84: the confirmation; a failing sendto is caught at line 92, break
RegReply(ok) ==
    /\ regPc = "reply"
    /\ IF ok /\ server_socket = "open"
         THEN /\ regReply' = "REGISTERED"
              /\ acked' = acked \cup {regAddr}
              /\ regPc' = "top"
         ELSE /\ regPc' = "exited"
              /\ UNCHANGED <<regReply, acked>>
    /\ UNCHANGED <<objVars, paramVars, mainVars, regData, regAddr, ctlVars,
                   sent, failed, encoded>>

\* line 88
RegDiscard ==
    /\ regPc = "discard"
    /\ clients' = clients \ {regAddr}
    /\ acked' = acked \ {regAddr}
    /\ regPc' = "top"
    /\ UNCHANGED <<running, sequence_number, server_socket, control_socket,
                   camera, max_packet_size, lock, paramVars, mainVars, regData,
                   regAddr, regReply, ctlVars, sent, failed, encoded>>

(***************************************************************************)
(* send_frames (main thread)                                               *)
(***************************************************************************)
\* the bytes the encoder returns for a frame of n bytes
Payload(n) == [i \in 1..n |-> i]

\* line 288
PayloadSize(max_size) == max_size - header_size

\* TotalPackets with floor division in place of math.ceil
TotalPacketsFloor(frame_size, payload_size) == frame_size \div payload_size

\* line 289: math.ceil(frame_size / payload_size)
TotalPackets(frame_size, payload_size) ==
    IF frame_size % payload_size = 0
      THEN frame_size \div payload_size
      ELSE frame_size \div payload_size + 1

\* Packet with the inner loop running from the last index down
PacketDescending(seq, total, index, data, payload_size) ==
    LET start_pos == (total - 1 - index) * payload_size
        end_pos == PyMin(start_pos + payload_size, Len(data))
    IN  [sequence_number |-> seq, total_packets |-> total,
         packet_index |-> total - 1 - index,
         payload |-> SubSeq(data, start_pos + 1, end_pos)]

\* lines 296-300: the header fields and the slice of the payload
Packet(seq, total, index, data, payload_size) ==
    LET start_pos == index * payload_size
        end_pos == PyMin(start_pos + payload_size, Len(data))
    IN  [sequence_number |-> seq, total_packets |-> total,
         packet_index |-> index, payload |-> SubSeq(data, start_pos + 1, end_pos)]

\* lines 265-269: a frame is read, or the read fails and the loop continues
Capture(ret) ==
    /\ pc = "loop"
    /\ running
    /\ pc' = IF ret THEN "process" ELSE "loop"
    /\ UNCHANGED <<objVars, paramVars, params, frame_data, total_packets,
                   current_clients, pending, client_addr, packet_index,
                   regVars, ctlVars, histVars>>

\* lines 272, 207-214: apply_blush looks for faces; the settings are read
\* only when one is found
Process(faces) ==
    /\ pc = "process"
    /\ params' = <<>>
    /\ pc' = IF faces THEN "acquire" ELSE "encode"
    /\ UNCHANGED <<objVars, paramVars, frame_data, total_packets,
                   current_clients, pending, client_addr, packet_index,
                   regVars, ctlVars, histVars>>

\* Acquire entering the block without taking the lock
AcquireUnguarded ==
    /\ pc = "acquire"
    /\ pc' = "read_color"
    /\ UNCHANGED <<objVars, paramVars, params, frame_data, total_packets,
                   current_clients, pending, client_addr, packet_index,
                   regVars, ctlVars, histVars>>

\* line 219: with self.lock, entered once no other thread holds the lock
Acquire ==
    /\ pc = "acquire"
    /\ lock = None
    /\ lock' = "main"
    /\ pc' = "read_color"
    /\ UNCHANGED <<running, sequence_number, clients, server_socket,
                   control_socket, camera, max_packet_size, paramVars, params,
                   frame_data, total_packets, current_clients, pending,
                   client_addr, packet_index, regVars, ctlVars, histVars>>

\* line 220
ReadColor ==
    /\ pc = "read_color"
    /\ params' = <<blush_color_rgb>>
    /\ pc' = "read_intensity"
    /\ UNCHANGED <<objVars, paramVars, frame_data, total_packets,
                   current_clients, pending, client_addr, packet_index,
                   regVars, ctlVars, histVars>>

\* line 221
ReadIntensity ==
    /\ pc = "read_intensity"
    /\ params' = Append(params, blush_intensity)
    /\ pc' = "read_blur"
    /\ UNCHANGED <<objVars, paramVars, frame_data, total_packets,
                   current_clients, pending, client_addr, packet_index,
                   regVars, ctlVars, histVars>>

\* lines 222-223: the last read, and the end of the with block releases the
\* lock
ReadBlur ==
    /\ pc = "read_blur"
    /\ params' = Append(params, blush_blur)
    /\ lock' = None
    /\ pc' = "encode"
    /\ UNCHANGED <<running, sequence_number, clients, server_socket,
                   control_socket, camera, max_packet_size, paramVars,
                   frame_data, total_packets, current_clients, pending,
                   client_addr, packet_index, regVars, ctlVars, histVars>>

\* EncodeFail with the increment of line 284 placed before the test of
\* line 278
EncodeFailNumbered ==
    /\ pc = "encode"
    /\ sequence_number < MaxFrames
    /\ sequence_number' = sequence_number + 1
    /\ pc' = "loop"
    /\ params' = <<>>
    /\ UNCHANGED <<running, clients, server_socket, control_socket, camera,
                   max_packet_size, lock, paramVars, frame_data, total_packets,
                   current_clients, pending, client_addr, packet_index,
                   regVars, ctlVars, histVars>>

\* lines 276-280: imencode fails, continue
EncodeFail ==
    /\ pc = "encode"
    /\ pc' = "loop"
    /\ params' = <<>>
    /\ UNCHANGED <<objVars, paramVars, frame_data, total_packets,
                   current_clients, pending, client_addr, packet_index,
                   regVars, ctlVars, histVars>>

\* line 284
NextSequence(seq) == seq + 1

\* Snapshot as a list of every address ever seen, the removed ones included
SnapshotEveryone(registry) == Addrs

\* Snapshot as a copy that misses a member, as an iteration over the set
\* while another thread changes it would
SnapshotPartial(registry) ==
    IF registry = {} THEN {} ELSE registry \ {CHOOSE a \in registry : TRUE}

\* line 292: self.clients.copy(), one call of the set type
Snapshot(registry) == registry

\* lines 282-292: the frame is encoded to n bytes, numbered and cut, and the
\* registry is copied
EncodeOk(n) ==
    /\ pc = "encode"
    /\ encoded < MaxFrames
    /\ frame_data' = Payload(n)
    /\ sequence_number' = NextSequence(sequence_number)
    /\ total_packets' = TotalPackets(n, PayloadSize(max_packet_size))
    /\ current_clients' = Snapshot(clients)
    /\ pending' = Snapshot(clients)
    /\ client_addr' = None
    /\ packet_index' = 0
    /\ params' = <<>>
    /\ sent' = [a \in Addrs |-> <<>>]
    /\ failed' = {}
    /\ encoded' = encoded + 1
    /\ pc' = IF Snapshot(clients) = {} THEN "pace" ELSE "fanout"
    /\ UNCHANGED <<running, clients, server_socket, control_socket, camera,
                   max_packet_size, lock, paramVars, regVars, ctlVars, acked>>

\* AfterSendError dropping every client on one failure
AfterSendErrorClear(registry, addr) == {}

\* AfterSendError without the discard
AfterSendErrorKeep(registry, addr) == registry

\* the registry after the handlers of lines 307-312
AfterSendError(registry, addr) == registry \ {addr}

\* line 299: struct.pack("!III", ...) raises struct.error when a field does
\* not fit its unsigned field
PackFails(seq, total, index) ==
    seq > HeaderFieldMax \/ total > HeaderFieldMax \/ index > HeaderFieldMax

\* lines 293-312: one pass of the inner loop for client c, the next address of
\* the copy when none is in progress; a failure of pack or of sendto discards
\* c and goes on with the next address
SendPacket(c, ok) ==
    /\ pc = "fanout"
    /\ total_packets > 0
    /\ client_addr = c \/ (client_addr = None /\ c \in pending)
    /\ LET index == IF client_addr = c THEN packet_index ELSE 0
           sends == /\ ok
                    /\ server_socket = "open"
                    /\ ~PackFails(sequence_number, total_packets, index)
           last == ~sends \/ index + 1 = total_packets
       IN  /\ IF sends
                THEN /\ sent' = [sent EXCEPT ![c] =
                            Append(@, Packet(sequence_number, total_packets,
                                             index, frame_data,
                                             PayloadSize(max_packet_size)))]
                     /\ UNCHANGED <<clients, failed, acked>>
                ELSE /\ clients' = AfterSendError(clients, c)
                     /\ failed' = failed \cup {c}
                     /\ acked' = acked \ {c}
                     /\ UNCHANGED sent
           /\ pending' = pending \ {c}
           /\ client_addr' = IF last THEN None ELSE c
           /\ packet_index' = IF last THEN 0 ELSE index + 1
           /\ pc' = IF last /\ pending \ {c} = {} THEN "pace" ELSE "fanout"
    /\ UNCHANGED <<running, sequence_number, server_socket, control_socket,
                   camera, max_packet_size, lock, paramVars, params, frame_data,
                   total_packets, current_clients, regVars, ctlVars, encoded>>

\* lines 293-295 with total_packets = 0: range(0) is empty for every client
SendNothing ==
    /\ pc = "fanout"
    /\ total_packets = 0
    /\ pending' = {}
    /\ pc' = "pace"
    /\ UNCHANGED <<objVars, paramVars, params, frame_data, total_packets,
                   current_clients, client_addr, packet_index, regVars,
                   ctlVars, histVars>>

\* lines 315-318: sleep out the rest of the frame interval
Pace ==
    /\ pc = "pace"
    /\ pc' = "loop"
    /\ frame_data' = <<>>
    /\ total_packets' = 0
    /\ current_clients' = {}
    /\ sent' = [a \in Addrs |-> <<>>]
    /\ failed' = {}
    /\ UNCHANGED <<objVars, paramVars, params, pending, client_addr,
                   packet_index, regVars, ctlVars, encoded, acked>>

(***************************************************************************)
(* listen_for_controls (control listener thread)                           *)
(***************************************************************************)
OkToken(kind) ==
    CASE kind = "COLOR" -> "COLOR_OK"
      [] kind = "INTENSITY" -> "INTENSITY_OK"
      [] kind = "BLUR" -> "BLUR_OK"
ErrorToken(kind) ==
    CASE kind = "COLOR" -> "COLOR_ERROR"
      [] kind = "INTENSITY" -> "INTENSITY_ERROR"
      [] kind = "BLUR" -> "BLUR_ERROR"

\* the sendto calls of one command from addr, in order, each with whether it
\* went out: the _OK reply inside the try block, and the _ERROR reply of the
\* handler for any exception of the try block, a failing _OK sendto included
Replies(kind, addr, parsed, okSent, errorSent) ==
    IF parsed /\ okSent
      THEN << [token |-> OkToken(kind), to |-> addr, delivered |-> TRUE] >>
    ELSE IF parsed
      THEN << [token |-> OkToken(kind), to |-> addr, delivered |-> FALSE],
              [token |-> ErrorToken(kind), to |-> addr,
               delivered |-> errorSent] >>
    ELSE << [token |-> ErrorToken(kind), to |-> addr, delivered |-> errorSent] >>

\* command.split(":")[1]
Argument(command) == Split(command, ":")[2]

\* ParseColor taking the first three fields, missing ones read as 0
ParseColorPadded(rgb_str) ==
    LET fields == SubSeq(Split(rgb_str, ",") \o << <<"0">>, <<"0">> >>, 1, 3)
    IN  IF \A i \in 1..3 : ParseInt(fields[i]).ok
          THEN [ok |-> TRUE,
                val |-> <<ParseInt(fields[1]).val, ParseInt(fields[2]).val,
                          ParseInt(fields[3]).val>>]
          ELSE Failure

\* line 109: r, g, b = map(int, rgb_str.split(","))
ParseColor(rgb_str) ==
    LET fields == Split(rgb_str, ",")
    IN  IF Len(fields) = 3 /\ \A i \in 1..3 : ParseInt(fields[i]).ok
          THEN [ok |-> TRUE,
                val |-> <<ParseInt(fields[1]).val, ParseInt(fields[2]).val,
                          ParseInt(fields[3]).val>>]
          ELSE Failure

\* ParseIntensity without the clamp of line 122
ParseIntensityUnclamped(arg) == ParseFloat(arg)

\* lines 121-122
ParseIntensity(arg) ==
    IF ParseFloat(arg).ok
      THEN [ok |-> TRUE,
            val |-> FloatMax(Float(0), FloatMin(Float(100), ParseFloat(arg).val))]
      ELSE Failure

\* lines 134-135
ParseBlur(arg) ==
    IF ParseInt(arg).ok
      THEN [ok |-> TRUE, val |-> PyMax(5, PyMin(50, ParseInt(arg).val))]
      ELSE Failure

\* which of the three branches (lines 105, 118, 131) a command takes
CommandKind(command) ==
    IF StartsWith(command, ColorPrefix) THEN "COLOR"
    ELSE IF StartsWith(command, IntensityPrefix) THEN "INTENSITY"
    ELSE IF StartsWith(command, BlurPrefix) THEN "BLUR"
    ELSE None

\* the value a command of the given kind parses to
ParseCommand(kind, command) ==
    CASE kind = "COLOR" -> ParseColor(Argument(command))
      [] kind = "INTENSITY" -> ParseIntensity(Argument(command))
      [] kind = "BLUR" -> ParseBlur(Argument(command))

\* CtlTop with a loop that does not test the flag (while True)
CtlTopForever ==
    /\ ctlPc = "top"
    /\ ctlPc' = "recv"
    /\ ctlData' = NoData
    /\ ctlAddr' = None
    /\ ctlReplies' = <<>>
    /\ UNCHANGED <<objVars, paramVars, mainVars, regVars, histVars>>

\* line 100
CtlTop ==
    /\ ctlPc = "top"
    /\ ctlPc' = IF running THEN "recv" ELSE "exited"
    /\ ctlData' = NoData
    /\ ctlAddr' = None
    /\ ctlReplies' = <<>>
    /\ UNCHANGED <<objVars, paramVars, mainVars, regVars, histVars>>

\* lines 102-148: one datagram is received and handled; okSent and errorSent
\* say whether the sendto of each reply goes out.  Nothing of the handler
\* leaves the loop: the outer handlers (lines 144-148) fall through to the
\* loop test.  A command that parses writes its setting inside with
\* self.lock (lines 110, 123, 136), entered once the lock is free
CtlRecv(data, addr, okSent, errorSent) ==
    /\ ctlPc = "recv"
    /\ control_socket = "open"
    /\ ctlData' = data
    /\ ctlAddr' = addr
    /\ ctlPc' = "top"
    /\ LET command == Strip(Decode(data).text)
           kind == CommandKind(command)
           parsed == ParseCommand(kind, command)
       IN  IF ~Decode(data).ok \/ kind = None
             THEN /\ ctlReplies' = <<>>
                  /\ UNCHANGED paramVars
             ELSE /\ parsed.ok => lock = None
                  /\ ctlReplies' =
                        Replies(kind, addr, parsed.ok, okSent, errorSent)
                  /\ blush_color_rgb' =
                        IF kind = "COLOR" /\ parsed.ok
                          THEN parsed.val ELSE blush_color_rgb
                  /\ blush_intensity' =
                        IF kind = "INTENSITY" /\ parsed.ok
                          THEN parsed.val ELSE blush_intensity
                  /\ blush_blur' =
                        IF kind = "BLUR" /\ parsed.ok
                          THEN parsed.val ELSE blush_blur
    /\ UNCHANGED <<objVars, mainVars, regVars, histVars>>

\* lines 144-148: socket.timeout, continue (or recvfrom raises on a closed
\* socket, which line 146 catches): back to the loop test
CtlTimeout ==
    /\ ctlPc = "recv"
    /\ ctlPc' = "top"
    /\ UNCHANGED <<objVars, paramVars, mainVars, ctlData, ctlAddr, ctlReplies,
                   regVars, histVars>>

(***************************************************************************)
(* Specifications                                                          *)
(***************************************************************************)
Startup ==
    \/ \E ok \in BOOLEAN : BindServer(ok)
    \/ \E ok \in BOOLEAN : BindControl(ok)
    \/ \E ok \in BOOLEAN : InitCamera(ok)

Shutdown ==
    \/ Interrupt
    \/ StopFlag
    \/ StopClose

Lifecycle == Startup \/ Shutdown

\* one frame up to the encoder
Frame ==
    \/ \E ret \in BOOLEAN : Capture(ret)
    \/ \E faces \in BOOLEAN : Process(faces)
    \/ Acquire
    \/ ReadColor
    \/ ReadIntensity
    \/ ReadBlur
    \/ FrameError
    \/ EncodeFail

Broadcast ==
    \/ Frame
    \/ \E n \in 0..MaxFrameLen : EncodeOk(n)
    \/ \E c \in Addrs, ok \in BOOLEAN : SendPacket(c, ok)
    \/ SendNothing
    \/ Pace

Registration ==
    \/ RegTop
    \/ \E data \in RegDatagrams, addr \in Addrs : RegRecv(data, addr)
    \/ RegTimeout
    \/ RegSocketError
    \/ RegAdd
    \/ \E ok \in BOOLEAN : RegReply(ok)
    \/ RegDiscard

Control ==
    \/ CtlTop
    \/ \E data \in CtlDatagrams, addr \in Addrs, okSent, errorSent \in BOOLEAN :
          CtlRecv(data, addr, okSent, errorSent)
    \/ CtlTimeout

\* a few control datagrams: one that parses for each setting, and one that
\* does not parse
FewCtlDatagrams ==
    { ColorPrefix \o <<"1", "0", ",", "2", "0", ",", "3", "0">>,
      IntensityPrefix \o <<"0", ".", "5">>,
      BlurPrefix \o <<"2", "0">>,
      BlurPrefix \o <<"x">> }

ControlFew ==
    \/ CtlTop
    \/ \E data \in FewCtlDatagrams, addr \in Addrs, okSent, errorSent \in BOOLEAN :
          CtlRecv(data, addr, okSent, errorSent)
    \/ CtlTimeout

\* the whole program
Next == Lifecycle \/ Broadcast \/ Registration \/ Control
Spec == Init /\ [][Next]_vars

\* the program while no datagram arrives on the control port
NextRegistry == Lifecycle \/ Broadcast \/ Registration
SpecRegistry == Init /\ [][NextRegistry]_vars

\* the program while the broadcast loop waits for its next frame and no
\* datagram arrives on the registration port
NextControl == Lifecycle \/ Control
SpecControl == Init /\ [][NextControl]_vars

\* the program while no datagram arrives on the registration port, so that
\* no client is registered and every frame goes from the encoder to the
\* pacing step, and while the control port receives FewCtlDatagrams
NextParams ==
    \/ Lifecycle
    \/ Frame
    \/ \E n \in 0..MaxFrameLen : EncodeOk(n)
    \/ Pace
    \/ ControlFew
SpecParams == Init /\ [][NextParams]_vars

\* the two listeners while the broadcast loop waits for its next frame.  Each
\* listener thread is scheduled again and again, so it takes the step it is
\* at; a recvfrom that hands over no datagram returns by its 0.5 s timeout
\* (lines 328 and 334)
NextShutdown == Lifecycle \/ Registration \/ ControlFew
SpecShutdown ==
    /\ Init
    /\ [][NextShutdown]_vars
    /\ WF_vars(RegTop)
    /\ WF_vars(RegTimeout)
    /\ WF_vars(RegAdd)
    /\ WF_vars(\E ok \in BOOLEAN : RegReply(ok))
    /\ WF_vars(RegDiscard)
    /\ WF_vars(CtlTop)
    /\ WF_vars(CtlTimeout)

\* a run that has been broadcasting for HeaderFieldMax - 1 frames: the state
\* at the top of the loop, with any set of registered clients
InitWrap ==
    /\ running = TRUE
    /\ sequence_number = HeaderFieldMax - 1
    /\ clients \in SUBSET Addrs
    /\ server_socket = "open"
    /\ control_socket = "open"
    /\ camera = "opened"
    /\ blush_color_rgb = <<235, 148, 146>>
    /\ blush_intensity = Float(25)
    /\ blush_blur = 15
    /\ max_packet_size \in (header_size + 1)..(header_size + MaxChunk)
    /\ lock = None
    /\ pc = "loop"
    /\ params = <<>>
    /\ frame_data = <<>>
    /\ total_packets = 0
    /\ current_clients = {}
    /\ pending = {}
    /\ client_addr = None
    /\ packet_index = 0
    /\ regPc = "top"
    /\ regData = NoData
    /\ regAddr = None
    /\ regReply = None
    /\ ctlPc = "top"
    /\ ctlData = NoData
    /\ ctlAddr = None
    /\ ctlReplies = <<>>
    /\ sent = [a \in Addrs |-> <<>>]
    /\ failed = {}
    /\ encoded = 0
    /\ acked = clients

NextWrap == Shutdown \/ Broadcast \/ Registration
SpecWrap == InitWrap /\ [][NextWrap]_vars

(***************************************************************************)
(* Properties of the control listener (checked under SpecControl)          *)
(***************************************************************************)
\* the step in which the control listener receives and handles datagram d
CtlHandles(d) == ctlPc = "recv" /\ ctlData' = d

\* COLOR commands with three integer fields, one of them outside 0..255
OutOfRangeColors ==
    { ColorPrefix \o <<"3", "0", "0", ",", "1", "0", ",", "1", "0">>,
      ColorPrefix \o <<"-", "1", ",", "0", ",", "2", "5", "5">> }

\* C1: a COLOR command with integer fields of which one is outside [0,255]
\* is answered COLOR_ERROR and leaves the stored color as it was.
C1_OutOfRangeColorRejected ==
    [][\A d \in OutOfRangeColors :
          CtlHandles(d) =>
              /\ blush_color_rgb' = blush_color_rgb
              /\ Len(ctlReplies') = 1
              /\ ctlReplies'[1].token = "COLOR_ERROR"
              /\ ctlReplies'[1].to = ctlAddr']_vars

\* commands with a known prefix whose argument does not parse: a wrong field
\* count, a non-numeric field, a fraction where an integer is read, nothing
MalformedCommands ==
    { [data |-> ColorPrefix \o a, error |-> "COLOR_ERROR"] :
        a \in { <<"1", "0", ",", "2", "0">>,
                <<"1", ",", "2", ",", "3", ",", "4">>,
                <<"1", "0", ",", "x", ",", "3", "0">>,
                <<"1", ".", "5", ",", "2", ",", "3">>,
                <<>> } }
    \cup { [data |-> IntensityPrefix \o a, error |-> "INTENSITY_ERROR"] :
        a \in { <<"x">>, <<"1", ".", "5", ".", "2">>, <<>> } }
    \cup { [data |-> BlurPrefix \o a, error |-> "BLUR_ERROR"] :
        a \in { <<"7", ".", "5">>, <<"x">>, <<>> } }

\* C5: for a COLOR:, INTENSITY: or BLUR: command whose argument fails to
\* parse, the only reply the listener sends is <KIND>_ERROR, to the sender of
\* the command; color, intensity and blur stay as they were; the listener
\* returns to its loop test, and leaves the loop only once running is false.
C5_MalformedCommandRejected ==
    [][/\ \A m \in MalformedCommands :
            CtlHandles(m.data) =>
                /\ UNCHANGED paramVars
                /\ Len(ctlReplies') = 1
                /\ ctlReplies'[1].token = m.error
                /\ ctlReplies'[1].to = ctlAddr'
                /\ ctlPc' = "top"
       /\ (ctlPc # "exited" /\ ctlPc' = "exited") => ~running]_vars

\* C5 witness: COLOR:10,x,30 has been answered COLOR_ERROR
C5_Witness ==
    /\ ctlPc = "top"
    /\ ctlData = ColorPrefix \o <<"1", "0", ",", "x", ",", "3", "0">>
    /\ Len(ctlReplies) = 1
    /\ ctlReplies[1].token = "COLOR_ERROR"
    /\ ctlReplies[1].delivered
    /\ running

\* x brought into [lo, hi]
Clamp(lo, hi, x) == IF x < lo THEN lo ELSE IF x > hi THEN hi ELSE x

\* INTENSITY commands with a numeric argument, and its value in hundredths
IntensityCases ==
    { [data |-> IntensityPrefix \o <<"1", ".", "5">>, x |-> 150],
      [data |-> IntensityPrefix \o <<"0", ".", "5">>, x |-> 50],
      [data |-> IntensityPrefix \o <<"-", "0", ".", "5">>, x |-> 0 - 50],
      [data |-> IntensityPrefix \o <<"2">>, x |-> 200] }

\* BLUR commands with an integer argument, and its value
BlurCases ==
    { [data |-> BlurPrefix \o <<"3">>, n |-> 3],
      [data |-> BlurPrefix \o <<"2", "0">>, n |-> 20],
      [data |-> BlurPrefix \o <<"6", "0">>, n |-> 60],
      [data |-> BlurPrefix \o <<"-", "7">>, n |-> 0 - 7],
      [data |-> <<" ">> \o BlurPrefix \o <<"2", "0", " ">>, n |-> 20] }

\* the first reply of the handled command is token, addressed to the sender,
\* and an error reply follows only when that first sendto did not go out
AnsweredOk(token) ==
    /\ ctlReplies' # <<>>
    /\ ctlReplies'[1].token = token
    /\ ctlReplies'[1].to = ctlAddr'
    /\ Len(ctlReplies') > 1 => ~ctlReplies'[1].delivered

\* C6: for INTENSITY:x and BLUR:n with a numeric argument the listener sends
\* INTENSITY_OK / BLUR_OK whatever the range of the argument (an error reply
\* follows only when that sendto itself fails), the value stored is the
\* argument clamped into [0.0,1.0] and [5,50], and the stored intensity and
\* blur are within these bounds in every state.
C6_ClampedNeverRejected ==
    [][/\ \A k \in IntensityCases :
            CtlHandles(k.data) =>
                /\ AnsweredOk("INTENSITY_OK")
                /\ blush_intensity' = Float(Clamp(0, 100, k.x))
       /\ \A k \in BlurCases :
            CtlHandles(k.data) =>
                /\ AnsweredOk("BLUR_OK")
                /\ blush_blur' = Clamp(5, 50, k.n)
       /\ ~blush_intensity'.nan
       /\ blush_intensity'.v \in 0..100
       /\ blush_blur' \in 5..50]_vars

\* C6 witness: INTENSITY:1.5 has been answered INTENSITY_OK and 1.0 is stored
C6_Witness ==
    /\ ctlPc = "top"
    /\ ctlData = IntensityPrefix \o <<"1", ".", "5">>
    /\ ctlReplies = << [token |-> "INTENSITY_OK", to |-> ctlAddr,
                        delivered |-> TRUE] >>
    /\ blush_intensity = Float(100)

(***************************************************************************)
(* Properties of the registry and the broadcast (checked under             *)
(* SpecRegistry)                                                           *)
(***************************************************************************)
\* the step in which the listener receives datagram d from address a
RegHandles(d, a) == regPc = "recv" /\ regData' = d /\ regAddr' = a
\* the step in which the listener carries out an UNREGISTER from a
Unregisters(a) == regPc = "discard" /\ regAddr = a /\ regPc' = "top"
\* the step in which a send to a fails
SendFails(a) == pc = "fanout" /\ a \in failed' /\ a \notin failed
\* the step in which a frame is numbered and the registry is copied
TakesSnapshot == pc = "encode" /\ pc' \in {"fanout", "pace"}
\* the addresses whose pass over the current frame ended without an error
Served == (current_clients \ failed) \ (pending \cup {client_addr})

\* C2 as stated: an address that has been answered REGISTERED, and from
\* which no UNREGISTER was processed and to which no send failed since, is
\* in the registry copy of every frame.
C2_AnsweredIsInEverySnapshot ==
    [][TakesSnapshot => acked \subseteq current_clients']_vars

\* C2 amended: an address leaves the registry only when an UNREGISTER from
\* it is processed or a send to it fails; REGISTERED is sent only by the
\* step after the one that added the address; every frame copies the whole
\* registry, and every address of the copy to which no send failed has been
\* sent every fragment when the pass is over.
C2_RegisteredStaysUntilRemoved ==
    [][/\ \A a \in Addrs :
            /\ (a \in clients /\ a \notin clients') =>
                   Unregisters(a) \/ SendFails(a)
            /\ (a \in acked' /\ a \notin acked) =>
                   regPc = "reply" /\ regAddr = a
       /\ (regPc # "reply" /\ regPc' = "reply") => regAddr' \in clients'
       /\ TakesSnapshot => current_clients' = clients
       /\ pc' = "pace" =>
            \A c \in current_clients' \ failed' :
                Len(sent'[c]) = total_packets']_vars

\* C2 witness: the second frame has gone out in full to an address that was
\* answered REGISTERED
C2_Witness ==
    /\ pc = "pace"
    /\ sequence_number = 2
    /\ total_packets = 2
    /\ \E a \in acked :
          a \in current_clients /\ a \in clients /\ Len(sent[a]) = 2

\* C3: every REGISTER that has been handled was answered REGISTERED, also
\* when its sender was in the registry already.
C3_EveryRegisterAnswered ==
    (regPc = "top" /\ regData = REGISTER) => regReply = "REGISTERED"

\* C4: while running is true the registration listener is in its loop,
\* whatever datagrams it has handled.
C4_ListenerSurvivesBadDatagram ==
    (running /\ server_socket = "open") => regPc # "exited"

\* C8: REGISTER from a member and UNREGISTER from a non-member return to the
\* loop test with the registry as it was, raising nothing; the add of a
\* REGISTER makes its sender a member and changes no other membership.
C8_RegistryIdempotent ==
    [][\A a \in Addrs :
          /\ (RegHandles(REGISTER, a) /\ a \in clients) =>
                 regPc' = "top" /\ clients' = clients
          /\ (RegHandles(UNREGISTER, a) /\ a \notin clients) =>
                 regPc' = "top" /\ clients' = clients
          /\ (regPc = "add" /\ regAddr = a /\ regPc' = "reply") =>
                 /\ a \in clients'
                 /\ clients' \ {a} = clients \ {a}
                 /\ Cardinality(clients') <= Cardinality(clients) + 1
          /\ Unregisters(a) =>
                 a \notin clients' /\ clients' \ {a} = clients \ {a}]_vars

\* C8 witness: a second REGISTER from a registered address has been handled
C8_Witness ==
    /\ regPc = "top"
    /\ regData = REGISTER
    /\ regReply = None
    /\ regAddr \in clients
    /\ Cardinality(clients) = 1

\* C9: a failing send removes its address, and only it, from the registry,
\* and nothing more of the frame is sent to that address; when the pass is
\* over, every other address of the copy has been sent all the fragments.
C9_SendFailureIsolated ==
    [][/\ \A c \in Addrs :
            /\ SendFails(c) =>
                   /\ clients' = clients \ {c}
                   /\ sent' = sent
                   /\ c \notin pending' /\ client_addr' # c
            /\ (c \in failed /\ c \in failed') => sent'[c] = sent[c]
       /\ pc' = "pace" =>
            \A c \in current_clients' \ failed' :
                /\ Len(sent'[c]) = total_packets'
                /\ \A i \in 1..total_packets' :
                      sent'[c][i].packet_index = i - 1]_vars

\* C9 witness: the second send to one address failed, the other address got
\* both fragments and is still registered
C9_Witness ==
    /\ pc = "pace"
    /\ total_packets = 2
    /\ \E c \in failed, d \in current_clients \ failed :
          /\ Len(sent[c]) = 1
          /\ c \notin clients
          /\ Len(sent[d]) = 2
          /\ d \in clients

\* the least n with n * size >= len
LeastCover(len, size) == CHOOSE n \in 0..len : n * size >= len /\
                            \A m \in 0..(n - 1) : m * size < len

RECURSIVE Concat(_)
Concat(packets) ==
    IF packets = <<>> THEN <<>>
    ELSE Head(packets).payload \o Concat(Tail(packets))

\* C7: the fragments sent to a client number ceil(L / (M - 12)), carry the
\* indices 0, 1, ... in order, and their chunks concatenated are the payload;
\* an empty payload gives no fragment; 100000 bytes at M = 32768 give 4.
C7_FragmentationRoundTrip ==
    /\ TotalPackets(100000, PayloadSize(32768)) = 4
    /\ pc \in {"fanout", "pace"} =>
         /\ total_packets =
                LeastCover(Len(frame_data), max_packet_size - 12)
         /\ frame_data = <<>> => \A c \in Addrs : sent[c] = <<>>
         /\ \A c \in Served :
               /\ Len(sent[c]) = total_packets
               /\ \A i \in 1..Len(sent[c]) :
                     /\ sent[c][i].packet_index = i - 1
                     /\ sent[c][i].total_packets = total_packets
                     /\ Len(sent[c][i].payload) <= max_packet_size - 12
               /\ Concat(sent[c]) = frame_data

\* C7 witness: three bytes in chunks of two went out as two fragments, the
\* last one carrying the remaining byte
C7_Witness ==
    /\ pc = "pace"
    /\ Len(frame_data) = 3
    /\ max_packet_size = 14
    /\ \E c \in Served :
          Len(sent[c]) = 2 /\ sent[c][2].payload = <<3>>

\* C10: the sequence number changes only when start_server resets it and
\* when a captured frame is encoded, which adds one; it equals the number of
\* frames encoded since the start, and every fragment carries it.
C10_SequenceCountsEncodedFrames ==
    [][/\ sequence_number' # sequence_number =>
            \/ pc = "init_camera" /\ sequence_number' = 0
            \/ TakesSnapshot /\ sequence_number' = sequence_number + 1
       /\ (pc = "loop" /\ pc' = "loop") => sequence_number' = sequence_number
       /\ (pc = "encode" /\ pc' = "loop") => sequence_number' = sequence_number
       /\ TakesSnapshot => sequence_number' = sequence_number + 1
       /\ sequence_number' = encoded'
       /\ \A c \in Addrs : \A i \in 1..Len(sent'[c]) :
             sent'[c][i].sequence_number = encoded']_vars

\* C10 witness: a fragment of the second encoded frame carries the number 2
C10_Witness ==
    /\ encoded = 2
    /\ \E c \in Addrs :
          sent[c] # <<>> /\ sent[c][1].sequence_number = 2

(***************************************************************************)
(* The sequence number at the limit of its header field (SpecWrap)         *)
(***************************************************************************)
\* C11 as stated: the sequence number wraps at the modulus of the header
\* field, so every number stays within the field, and no client is removed
\* from the registry because a header cannot be packed.
C11_SequenceWrapsInField ==
    [][/\ TakesSnapshot =>
            sequence_number' = (sequence_number + 1) % (HeaderFieldMax + 1)
       /\ sequence_number' <= HeaderFieldMax
       /\ \A c \in Addrs :
            SendFails(c) =>
                ~PackFails(sequence_number, total_packets, packet_index)]_vars

(***************************************************************************)
(* Shutdown (SpecShutdown)                                                 *)
(***************************************************************************)
\* C12: once stop_server has cleared the running flag, the broadcast loop is
\* not running and each listener that was started leaves its loop: from every
\* position, the wait in recvfrom included, it comes back to the loop test
\* and exits; it never starts another iteration afterwards.
C12_WorkersLeaveTheirLoops ==
    /\ (pc = "stop_close") ~>
           /\ pc \notin LoopPcs
           /\ regPc \in {"idle", "exited"}
           /\ ctlPc \in {"idle", "exited"}
    /\ [][/\ regPc = "exited" => regPc' = "exited"
          /\ ctlPc = "exited" => ctlPc' = "exited"
          /\ ~running /\ pc # "init_camera" => pc' \notin LoopPcs]_vars

\* C12 witness: both listeners were started and have left their loops after
\* the shutdown that closed the sockets
C12_Witness ==
    /\ pc = "returned"
    /\ ~running
    /\ server_socket = None
    /\ regPc = "exited"
    /\ ctlPc = "exited"

(***************************************************************************)
(* Errors inside the loops (SpecRegistry)                                  *)
(***************************************************************************)
\* C13 as stated: while running is true, no error of one frame or of one
\* send takes the broadcast loop out of its loop (only a keyboard interrupt
\* does), and no error of one datagram takes a listener out of its loop.
C13_ErrorsStayInTheirIteration ==
    [][running =>
         /\ pc \in LoopPcs => pc' \in LoopPcs \cup {"stop"}
         /\ regPc # "exited" => regPc' # "exited"
         /\ ctlPc # "exited" => ctlPc' # "exited"]_vars

(***************************************************************************)
(* Interleavings of the two threads on the registry (SpecRegistry)         *)
(***************************************************************************)
\* the step in which the listener adds the address of a REGISTER
Registers(a) == regPc = "add" /\ regAddr = a /\ regPc' = "reply"

\* C14: whatever the broadcast thread does between the listener's membership
\* test, its add or discard and its reply, every operation has an instant at
\* which it takes effect as a whole: the address is still absent when the add
\* happens, so test and add are one registration; a discard leaves the
\* registry as an UNREGISTER handled at that instant would; a removal after
\* a failed send takes out that address only; the registry changes by one
\* whole address at a time and only in these steps; REGISTERED is sent only
\* for the address just added; and a snapshot is the registry of the instant
\* of the copy, never part of it.
C14_RegistryOperationsSerial ==
    [][/\ \A a \in Addrs :
            /\ Registers(a) =>
                   a \notin clients /\ clients' = clients \cup {a}
            /\ Unregisters(a) => clients' = clients \ {a}
            /\ SendFails(a) => clients' = clients \ {a}
       /\ clients' # clients =>
            \E a \in Addrs : Registers(a) \/ Unregisters(a) \/ SendFails(a)
       /\ regReply' # regReply /\ regReply' # None =>
            regPc = "reply" /\ regReply' = "REGISTERED"
       /\ TakesSnapshot =>
            current_clients' = clients /\ pending' = clients
       /\ current_clients' # current_clients =>
            TakesSnapshot \/ current_clients' = {}]_vars

\* C14 witness: between the listener's add and its reply the broadcast thread
\* copied the registry, failed a send to the new address and removed it
C14_Witness ==
    /\ regPc = "reply"
    /\ pc = "fanout"
    /\ regAddr \in current_clients
    /\ regAddr \in failed
    /\ regAddr \notin clients

(***************************************************************************)
(* The settings read for a frame (SpecParams)                              *)
(***************************************************************************)
\* the three settings as they are stored
Store == <<blush_color_rgb, blush_intensity, blush_blur>>

\* C15: the three settings are read between one acquire and one release of
\* the lock, and no setting is written while the broadcast loop holds it, so
\* the triple handed to the frame is the store as it is at the end of the
\* read: every command answered before then is in it and no later one is.
C15_TripleIsOneStoreState ==
    [][/\ lock = "main" => Store' = Store
       /\ Store' # Store => lock = None /\ lock' = None
       /\ pc \in {"read_color", "read_intensity", "read_blur"} => lock = "main"
       /\ (pc = "read_blur" /\ pc' = "encode") =>
            params' = Store' /\ lock' = None]_vars

\* C15 witness: a frame got a triple that includes a color command and a
\* blur command handled before the read
C15_Witness ==
    /\ pc = "encode"
    /\ params = <<<<10, 20, 30>>, Float(25), 20>>

(***************************************************************************)
(* Order of the fragments on the wire (SpecRegistry)                       *)
(***************************************************************************)
\* the step in which a fragment is sent to c
SendsTo(c) == Len(sent'[c]) = Len(sent[c]) + 1

\* C16: the fragments of a frame go to a client with the indices 0, 1, ...
\* in this order, each with the number of the frame and the same total; and
\* a frame is numbered only after the pass over the previous one has ended,
\* with every client of its copy either sent all fragments or failed.
C16_FragmentsInOrderFrameByFrame ==
    [][/\ \A c \in Addrs :
            SendsTo(c) =>
               /\ pc = "fanout"
               /\ c \in current_clients
               /\ sent'[c][Len(sent'[c])].packet_index = Len(sent[c])
               /\ Len(sent[c]) < total_packets
               /\ sent'[c][Len(sent'[c])].sequence_number = sequence_number
               /\ sent'[c][Len(sent'[c])].total_packets = total_packets
               /\ sequence_number = encoded
               /\ SubSeq(sent'[c], 1, Len(sent[c])) = sent[c]
       /\ (pc = "fanout" /\ pc' = "pace") =>
            \A c \in current_clients :
                c \in failed' \/ Len(sent'[c]) = total_packets
       /\ TakesSnapshot =>
            /\ pending = {} /\ client_addr = None
            /\ sequence_number' = sequence_number + 1
            /\ \A c \in Addrs : sent'[c] = <<>>
       /\ pc = "fanout" =>
            sequence_number' = sequence_number
            /\ total_packets' \in {total_packets, 0}]_vars

\* C16 witness: two clients have each been sent both fragments of a frame
C16_Witness ==
    /\ pc = "pace"
    /\ total_packets = 2
    /\ \A c \in Addrs :
          /\ Len(sent[c]) = 2
          /\ sent[c][1].packet_index = 0
          /\ sent[c][2].packet_index = 1

(***************************************************************************)
(* A frame the encoder rejects (SpecRegistry)                              *)
(***************************************************************************)
\* the step in which cv2.imencode returns no frame
EncoderFails ==
    /\ pc = "encode"
    /\ pc' \in {"loop", "pace"}
    /\ encoded' = encoded

\* C17 as stated: when the encoder fails, nothing is sent, the sequence
\* number stays, and the loop goes to its pacing step before the next
\* iteration.
C17_EncodeFailureStillPaces ==
    [][EncoderFails =>
         /\ sent' = sent
         /\ sequence_number' = sequence_number
         /\ pc' = "pace"]_vars

(***************************************************************************)
(* Startup that fails (SpecRegistry)                                       *)
(***************************************************************************)
\* the positions of start_server before the flag is set
StartPcs == {"start", "bind_control", "init_camera"}

\* C18: the flag is set, and the listeners and the broadcast loop are
\* started, only by the step that finds both ports bound and the camera
\* open; when a bind or the camera fails the flag stays false and no worker
\* exists, and when the process is through no socket is open and no camera
\* is held.
C18_FailedStartupReleasesAll ==
    [][/\ (~running /\ running') =>
            /\ pc = "init_camera"
            /\ server_socket = "open" /\ control_socket = "open"
            /\ camera' = "opened"
       /\ \/ regPc = "idle" /\ regPc' # "idle"
          \/ ctlPc = "idle" /\ ctlPc' # "idle"
          \/ pc \notin LoopPcs /\ pc' \in LoopPcs
          => ~running /\ running'
       /\ (pc \in StartPcs /\ pc' \notin StartPcs \cup LoopPcs) =>
            /\ ~running' /\ regPc' = "idle" /\ ctlPc' = "idle"
            /\ pc' \in {"stop", "returned"}
       /\ (regPc = "idle" /\ pc \notin StartPcs) =>
            ~running' /\ regPc' = "idle" /\ ctlPc' = "idle"
       /\ pc' = "returned" =>
            /\ server_socket' \in {None, "closed"}
            /\ control_socket' \in {None, "closed"}
            /\ camera' \in {None, "unopened"}]_vars

\* C18 witness: the camera could not be opened after both ports were bound,
\* and start_server has returned
C18_Witness ==
    /\ pc = "returned"
    /\ regPc = "idle"
    /\ ~running
    /\ camera = "unopened"
    /\ server_socket = "closed"
    /\ control_socket = "closed"

(***************************************************************************)
(* The reply after a failed reply (SpecControl)                            *)
(***************************************************************************)
\* the step in which an _ERROR reply goes out for a command
SendsError ==
    /\ ctlPc = "recv"
    /\ \E i \in 1..Len(ctlReplies') :
          /\ ctlReplies'[i].delivered
          /\ ctlReplies'[i].token \in
                 {"COLOR_ERROR", "INTENSITY_ERROR", "BLUR_ERROR"}

\* C19 as stated: a command that is answered with an _ERROR reply has left
\* the three settings as they were.
C19_ErrorReplyMeansStoreUntouched ==
    [][SendsError => UNCHANGED paramVars]_vars

(***************************************************************************)
(* Fragments to an address that has unregistered (SpecRegistry)            *)
(***************************************************************************)
\* C20: an UNREGISTER takes its address out of the registry, and only a new
\* REGISTER brings it back; while it is out, no frame copies it, and a
\* fragment still sent to it belongs to the frame in progress, whose copy
\* was taken while the address was registered and which has its number.
C20_StaleForOneFrameOnly ==
    [][\A a \in Addrs :
         /\ Unregisters(a) => a \notin clients'
         /\ (a \notin clients /\ a \in clients') => Registers(a)
         /\ (a \notin clients /\ TakesSnapshot) => a \notin current_clients'
         /\ (a \notin clients /\ SendsTo(a)) =>
               /\ pc = "fanout"
               /\ a \in current_clients
               /\ sent'[a][Len(sent'[a])].sequence_number = encoded]_vars

\* C20 witness: UNREGISTER from an address has just been processed while the
\* pass of the frame in progress is half way through that address
C20_Witness ==
    \E a \in Addrs :
        /\ regPc = "top" /\ regData = UNREGISTER /\ regAddr = a
        /\ a \notin clients
        /\ pc = "fanout" /\ client_addr = a /\ packet_index = 1
        /\ a \in current_clients
        /\ Len(sent[a]) = 1

====
